---------------------------- MODULE Spec2Model ----------------------------
(***************************************************************************)
(* Group normalization CPU kernel                                          *)
(* (aten/src/ATen/native/cpu/group_norm_kernel.cpp): forward in the packed *)
(* (contiguous) and interleaved (channels-last) layouts, and backward.     *)
(*                                                                         *)
(* Arithmetic.  The kernel computes in floating point.  The model computes *)
(* with exact numbers: a number is  k*rho + r  where k and r are rationals *)
(* and rho = 1/sqrt(rad) is the reciprocal square root of the rational     *)
(* rad (rho*rho = 1/rad).  Floating-point rounding is therefore not part   *)
(* of the model: two results the model finds equal are equal as real       *)
(* numbers, and equal in floating point up to rounding.                    *)
(*                                                                         *)
(* Parallelism.  at::parallel_for(begin, end, grain, f) hands contiguous   *)
(* chunks [b, e) of the range to threads and returns when every chunk has  *)
(* been run.  The model lets any contiguous chunk of the remaining range   *)
(* be taken next by any thread id below num_threads, which covers every    *)
(* assignment of the range's positions to threads.                         *)
(***************************************************************************)
EXTENDS Integers, Sequences, FiniteSets, TLC

(***************************************************************************)
(* Bounds of the model.                                                    *)
(***************************************************************************)
MaxN == 2
MaxC == 4
MaxG == 2
MaxHxW == 3
MaxNumel == 8
MaxThreads == 2
NumPatterns == 2
\* The sums fed to the moment formulas lie in -MaxSum..MaxSum.
MaxSum == 3
\* Lanes of a vec::Vectorized register (Vec::size(), fixed by the build).
K == 2
\* The cutoff between impl-1 and impl-2 of the channels-last forward.  The
\* source sets 1024 (line 325); the model scales it down so that both sides
\* of the comparison HxW < feature_map_threshold are within MaxHxW.
feature_map_threshold == 2

(***************************************************************************)
(* Exact rationals <<numerator, denominator>>, denominator > 0, in lowest  *)
(* terms.                                                                  *)
(***************************************************************************)
Abs(a) == IF a < 0 THEN -a ELSE a

RECURSIVE GCD(_, _)
GCD(a, b) == IF b = 0 THEN a ELSE GCD(b, a % b)

QNorm(n, d) ==
  LET g == GCD(Abs(n), d)
  IN  IF n = 0 THEN <<0, 1>> ELSE <<n \div g, d \div g>>

Q0 == <<0, 1>>
Q1 == <<1, 1>>
QInt(n) == <<n, 1>>
QAdd(p, q) ==
  IF p[2] = q[2] /\ p[2] = 1 THEN <<p[1] + q[1], 1>>
  ELSE QNorm(p[1] * q[2] + q[1] * p[2], p[2] * q[2])
QNeg(p) == <<-p[1], p[2]>>
QSub(p, q) == QAdd(p, QNeg(q))
QMul(p, q) ==
  IF p[2] = q[2] /\ p[2] = 1 THEN <<p[1] * q[1], 1>>
  ELSE QNorm(p[1] * q[1], p[2] * q[2])
QInv(p) == IF p[1] > 0 THEN <<p[2], p[1]>> ELSE <<-p[2], -p[1]>>
QDiv(p, q) == QMul(p, QInv(q))
QLess(p, q) == p[1] * q[2] < q[1] * p[2]
QLeq(p, q) == p[1] * q[2] <= q[1] * p[2]
QMax(p, q) == IF QLess(p, q) THEN q ELSE p

(***************************************************************************)
(* Numbers k*rho + r with rho = 1/sqrt(rad).  When k = 0 the number is the *)
(* rational r and rad is kept 0, so that equal numbers are equal records.  *)
(***************************************************************************)
VNormal(k, r, rad) ==
  IF k = Q0 THEN [k |-> Q0, r |-> r, rad |-> Q0] ELSE [k |-> k, r |-> r, rad |-> rad]

VQ(q) == [k |-> Q0, r |-> q, rad |-> Q0]
VInt(n) == VQ(QInt(n))
V0 == VInt(0)
V1 == VInt(1)
VRad(u, v) == IF u.k # Q0 THEN u.rad ELSE v.rad
VAdd(u, v) ==
  IF u.k = Q0 /\ v.k = Q0 THEN VQ(QAdd(u.r, v.r))
  ELSE VNormal(QAdd(u.k, v.k), QAdd(u.r, v.r), VRad(u, v))
VNeg(u) == [k |-> QNeg(u.k), r |-> QNeg(u.r), rad |-> u.rad]
VSub(u, v) == VAdd(u, VNeg(v))
\* (uk*rho + ur) * (vk*rho + vr), with rho*rho = 1/rad
VMul(u, v) ==
  LET rad == VRad(u, v)
      sq  == IF u.k # Q0 /\ v.k # Q0 THEN QDiv(QMul(u.k, v.k), rad) ELSE Q0
  IN  IF u.k = Q0 /\ v.k = Q0 THEN VQ(QMul(u.r, v.r))
      ELSE VNormal(QAdd(QMul(u.k, v.r), QMul(u.r, v.k)),
                   QAdd(QMul(u.r, v.r), sq), rad)
\* std::max(v, T_ACC(0)) of a rational
VMax0(v) == VQ(QMax(v.r, Q0))
\* T_ACC(1) / std::sqrt(v) of a rational v: the symbol rho with rad = v
VRsqrt(v) == [k |-> Q1, r |-> Q0, rad |-> v.r]
\* T_ACC(1) / static_cast<T_ACC>(n)
VRecip(n) == VQ(<<1, n>>)

\* What the caller left in an output buffer before the call.
Sentinel == VInt(-999)
\* The content of memory that at::empty returns.
Uninit == VInt(-777)
\* The memory before a call, and another memory before the same call.
DefaultPrior == [out |-> Sentinel, scratch |-> Uninit]
OtherPrior == [out |-> VInt(-555), scratch |-> VInt(-333)]
PriorChoices == {DefaultPrior, OtherPrior}

(***************************************************************************)
(* Tensors: [defined, data]; data is the flat buffer, element i of the     *)
(* source (0-based) is data[i + 1].                                        *)
(***************************************************************************)
Undefined == [defined |-> FALSE, data |-> <<>>]
Tensor(d) == [defined |-> TRUE, data |-> d]
numel(t) == Len(t.data)
At(buf, i) == buf[i + 1]
Fill(n, v) == [i \in 1..n |-> v]
\* The function f itself, with its values computed once.
Eager(f) == f @@ <<>>


RECURSIVE VSum(_)
VSum(s) == IF s = <<>> THEN V0 ELSE VAdd(VSum(Tail(s)), Head(s))

(***************************************************************************)
(* State.                                                                  *)
(*   call        the arguments of the call (never change during it)        *)
(*   prior       what memory holds before the call: prior.out in the       *)
(*               caller's output buffers, prior.scratch in the memory      *)
(*               that at::empty hands out                                  *)
(*   Y mean rstd the forward's output buffers (mean, rstd: the backward's  *)
(*               inputs)                                                   *)
(*   dX dgamma dbeta  the backward's output buffers                        *)
(*   buffer tmp_buffer  the forward's scratch tensors                      *)
(*   ds db       the backward's scratch tensors                            *)
(*   pc          where the call is                                         *)
(*   todo        the positions of the running parallel_for's range that no *)
(*               thread has taken yet                                      *)
(*   idx         the loop counter of a serial step                         *)
(*   workers     the work items of GammaBackward / BetaBackward under way  *)
(*   hist        history: who wrote and read what                          *)
(***************************************************************************)
VARIABLES call, prior, Y, mean, rstd, dX, dgamma, dbeta, buffer, tmp_buffer, ds, db,
          pc, todo, idx, workers, hist

vars == <<call, prior, Y, mean, rstd, dX, dgamma, dbeta, buffer, tmp_buffer, ds, db,
          pc, todo, idx, workers, hist>>

N == call.N
C == call.C
HxW == call.HxW
group == call.group
G == group
D == C \div G
eps == call.eps
X == call.X
gamma == call.gamma
beta == call.beta
dY == call.dY
num_threads == call.num_threads
gamma_null == ~gamma.defined
beta_null == ~beta.defined
X_data(i) == At(X.data, i)
gamma_data(c) == At(gamma.data, c)
beta_data(c) == At(beta.data, c)
dY_data(i) == At(dY.data, i)

(***************************************************************************)
(* The inputs the model draws.                                             *)
(***************************************************************************)
Shapes ==
  {s \in [N : 1..MaxN, C : 1..MaxC, HxW : 1..MaxHxW, group : 1..MaxG] :
      s.group <= s.C /\ s.N * s.C * s.HxW <= MaxNumel}

\* Element i of data pattern p; pattern 1 is constant.
XGen(p, i) == VInt((((p - 1) * (i * i + i + 1) + 3) % 5) - 2)
DataGen(p, n) == [i \in 1..n |-> XGen(p, i - 1)]

GammaChoices == {"none", "ones", "ramp"}
BetaChoices == {"none", "zeros", "ramp"}
AffineChoices ==
  {<<"none", "none">>, <<"ones", "zeros">>, <<"ramp", "none">>, <<"none", "ramp">>,
   <<"ramp", "ramp">>}
GammaGen(ch, n) ==
  IF ch = "none" THEN Undefined
  ELSE Tensor([c \in 1..n |-> IF ch = "ones" THEN V1 ELSE VInt(c + 1)])
BetaGen(ch, n) ==
  IF ch = "none" THEN Undefined
  ELSE Tensor([c \in 1..n |-> IF ch = "zeros" THEN V0 ELSE VInt(-c)])

EpsChoices == {V1}
Layouts == {"Contiguous", "ChannelsLast"}
\* Which tensor, if any, has one element too many.
FwdBad == {"ok", "X", "gamma", "beta"}
BwdBad == {"ok", "dY", "X", "mean", "rstd", "gamma"}
Extra(bad, which) == IF bad = which THEN 1 ELSE 0


(***************************************************************************)
(* Helpers of the kernels.  An operator taking  a  computes from the       *)
(* arguments record  a  of a call (a.N, a.C, a.HxW, a.group, a.eps, a.X,   *)
(* a.gamma, a.beta), as the function of the source computes from its       *)
(* parameters.                                                             *)
(***************************************************************************)
DOf(a) == a.C \div a.group
XAt(a, i) == At(a.X.data, i)
GammaOr1(a, c) == IF ~a.gamma.defined THEN V1 ELSE At(a.gamma.data, c)
BetaOr0(a, c) == IF ~a.beta.defined THEN V0 ELSE At(a.beta.data, c)

\* data_index_init(offset, n, N, m, M): the last index varies fastest.
data_index_init(offset, d0, d1) == <<(offset \div d1) % d0, offset % d1>>
\* data_index_step(n, N, m, M)
data_index_step(ix, d0, d1) ==
  IF ix[2] + 1 < d1 THEN <<ix[1], ix[2] + 1>>
  ELSE <<IF ix[1] + 1 < d0 THEN ix[1] + 1 ELSE 0, 0>>
\* The indices at iteration i of a loop that began at begin.
RECURSIVE DataIndexAt(_, _, _, _)
DataIndexAt(begin, i, d0, d1) ==
  IF i = begin THEN data_index_init(begin, d0, d1)
  ELSE data_index_step(DataIndexAt(begin, i - 1, d0, d1), d0, d1)

\* RowwiseMoments(X_ptr, n): mean and biased variance of n contiguous
\* elements from offset off (two passes).
Sq(v) == VMul(v, v)
MomentsAbout(xs, m) ==
  <<m, VMul(VSum([j \in DOMAIN xs |-> Sq(VSub(xs[j], m))]), VRecip(Len(xs)))>>
MomentsOf(xs) == MomentsAbout(xs, VMul(VSum(xs), VRecip(Len(xs))))
RowwiseMoments(a, off, n) == MomentsOf(Eager([j \in 1..n |-> XAt(a, off + j - 1)]))

\* rstd_val = T_ACC(1) / std::sqrt(std::max(rstd_val, T_ACC(0)) + eps)
PackedRstd(var, e) == VRsqrt(VAdd(VMax0(var), e))

\* The unit's mean_val and rstd_val in the packed forward.
PackedMeanRstd(mv, e) == [mean |-> mv[1], rstd |-> PackedRstd(mv[2], e)]
PackedMoments(a, i) ==
  PackedMeanRstd(RowwiseMoments(a, i * DOf(a) * a.HxW, DOf(a) * a.HxW), a.eps)

\* const int64_t c = g * D + j  with  g = i % G
PackedChannel(a, i, j) == (i % a.group) * DOf(a) + j

\* BiasOf with the negation of scale left out.
BiasOfNoNeg(a, scale, mean_val, c) == VAdd(VMul(scale, mean_val), BetaOr0(a, c))

\* scale = rstd_val * (gamma_null ? 1 : gamma_data[c])
ScaleOf(a, rstd_val, c) == VMul(rstd_val, GammaOr1(a, c))
\* bias = -scale * mean_val + (beta_null ? 0 : beta_data[c])
BiasOf(a, scale, mean_val, c) == VAdd(VMul(VNeg(scale), mean_val), BetaOr0(a, c))

\* Y_ptr[j] = (X_ptr[j] - mean_val) * rstd_val
PackedDirect(x, mean_val, rstd_val) == VMul(VSub(x, mean_val), rstd_val)
\* Y_ptr[k] = scale * X_ptr[k] + bias
PackedAffine(x, scale, bias) == VAdd(VMul(scale, x), bias)

\* The offsets of Y that unit i's iteration stores to.
PackedOffsets(a, i) ==
  LET inner_size == DOf(a) * a.HxW
  IN  (i * inner_size)..((i + 1) * inner_size - 1)

\* What unit i's iteration stores: mean_data[i], rstd_data[i], and to Y
\* (offset |-> value).
PackedUnitFrom(a, i, st) ==
  LET Dv == DOf(a)
      scale == Eager([j \in 0..(Dv - 1) |->
                        ScaleOf(a, st.rstd, PackedChannel(a, i, j))])
      bias == Eager([j \in 0..(Dv - 1) |->
                       BiasOf(a, scale[j], st.mean, PackedChannel(a, i, j))])
  IN  [mean |-> st.mean, rstd |-> st.rstd,
       y |-> Eager([off \in PackedOffsets(a, i) |->
                IF ~a.gamma.defined /\ ~a.beta.defined
                THEN PackedDirect(XAt(a, off), st.mean, st.rstd)
                ELSE PackedAffine(XAt(a, off), scale[(off \div a.HxW) - i * Dv],
                                  bias[(off \div a.HxW) - i * Dv])])]
PackedUnit(a, i) == PackedUnitFrom(a, i, PackedMoments(a, i))

(***************************************************************************)
(* Channels-last, impl-1.                                                  *)
(***************************************************************************)
\* ColumnLane without the partial load of the last D - inner_size channels.
ColumnLaneNoTail(a, base, l, sq) ==
  LET nb == DOf(a) \div K
      El(o) == IF sq THEN Sq(XAt(a, o)) ELSE XAt(a, o)
  IN  VSum([t \in 1..(a.HxW * nb) |->
              El(base + ((t - 1) \div nb) * a.C + ((t - 1) % nb) * K + l)])

\* Lane l of acc0_vec (sq = FALSE) or acc1_vec (sq = TRUE) after the loops of
\* ColumnwiseMoments(X_data + base, HxW, C, D): the full loads at
\* d = 0, K, ... < inner_size and the partial load of D - inner_size lanes.
ColumnLane(a, base, l, sq) ==
  LET Dv == DOf(a)
      nb == Dv \div K
      inner_size == nb * K
      El(o) == IF sq THEN Sq(XAt(a, o)) ELSE XAt(a, o)
      body == [t \in 1..(a.HxW * nb) |->
                 El(base + ((t - 1) \div nb) * a.C + ((t - 1) % nb) * K + l)]
      rest == IF l < Dv - inner_size
              THEN [m \in 1..a.HxW |-> El(base + (m - 1) * a.C + inner_size + l)]
              ELSE <<>>
  IN  VAdd(VSum(body), VSum(rest))

\* ColumnwiseMoments: vec_reduce_all of the two accumulators.
ColumnwiseSum(a, base, sq) == VSum([l \in 1..K |-> ColumnLane(a, base, l - 1, sq)])
ColumnwiseMoments(a, base) ==
  <<ColumnwiseSum(a, base, FALSE), ColumnwiseSum(a, base, TRUE)>>

\* Impl1MeanRstd without std::max(..., 0).
Impl1MeanRstdNoClamp(sum, sumsq, s, e) ==
  [mean |-> VMul(sum, s),
   rstd |-> VRsqrt(VAdd(VSub(VMul(sumsq, s), Sq(VMul(sum, s))), e))]

\* mean_val *= s; rstd_val = max(rstd_val * s - mean_val * mean_val, 0);
\* rstd_val = 1 / sqrt(rstd_val + eps)            (impl-1, lines 351-353)
Impl1MeanRstd(sum, sumsq, s, e) ==
  LET mean_val == VMul(sum, s)
      var == VMax0(VSub(VMul(sumsq, s), VMul(mean_val, mean_val)))
  IN  [mean |-> mean_val, rstd |-> VRsqrt(VAdd(var, e))]

\* Impl1Scratch with rows of D instead of 2 * D elements.
Impl1ScratchNarrow(a, i) == i * DOf(a)

\* T_ACC* scale_ptr = buffer_data + i * 2 * D
Impl1Scratch(a, i) == i * 2 * DOf(a)

\* X_data + n * HxW * C + g * D
Impl1Base(a, n, g) == n * a.HxW * a.C + g * DOf(a)

Impl1Stat(mo, s, e) == Impl1MeanRstd(mo[1], mo[2], s, e)
Impl1Moments(a, n, g) ==
  Impl1Stat(ColumnwiseMoments(a, Impl1Base(a, n, g)), VRecip(DOf(a) * a.HxW), a.eps)

\* step-2 and step-3 of impl-1 for unit (n, g): the scale and bias written
\* to the unit's scratch rows, and the values stored to Y at
\* Impl1Base(n, g) + m * C + d  (ApplyScaleBias: x * scale + bias).
Impl1UnitFrom(a, n, g, st) ==
  LET scale == Eager([d \in 0..(DOf(a) - 1) |->
                        ScaleOf(a, st.rstd, g * DOf(a) + d)])
      bias == Eager([d \in 0..(DOf(a) - 1) |->
                       BiasOf(a, scale[d], st.mean, g * DOf(a) + d)])
  IN  [mean |-> st.mean, rstd |-> st.rstd, scale |-> scale, bias |-> bias,
       y |-> Eager([off \in {Impl1Base(a, n, g) + m * a.C + d :
                               m \in 0..(a.HxW - 1), d \in 0..(DOf(a) - 1)} |->
                LET d == (off - Impl1Base(a, n, g)) % a.C
                IN  VAdd(VMul(XAt(a, off), scale[d]), bias[d])])]
Impl1Unit(a, n, g) == Impl1UnitFrom(a, n, g, Impl1Moments(a, n, g))

(***************************************************************************)
(* Channels-last, impl-2.                                                  *)
(***************************************************************************)
\* ThreadRegion with a region of N * C instead of N * 2 * C.
ThreadRegionHalf(a, tid) == tid * a.N * a.C

\* T_ACC* buffer_ptr = buffer_data + tid * N * 2 * C
ThreadRegion(a, tid) == tid * a.N * 2 * a.C

\* One iteration i of step-1 by thread tid, in a loop begun at begin:
\* CalcMeanVar adds x to mean_ptr[0..C) and x*x to rstd_ptr[0..C).
AccumulateIter(a, buf, tid, begin, i) ==
  LET n == DataIndexAt(begin, i, a.N, a.HxW)[1]
      mean_ptr == ThreadRegion(a, tid) + n * 2 * a.C
      rstd_ptr == mean_ptr + a.C
  IN  Eager([o \in DOMAIN buf |->
         LET off == o - 1
         IN  IF off \in mean_ptr..(mean_ptr + a.C - 1)
             THEN VAdd(XAt(a, i * a.C + (off - mean_ptr)), buf[o])
             ELSE IF off \in rstd_ptr..(rstd_ptr + a.C - 1)
             THEN VAdd(VMul(XAt(a, i * a.C + (off - rstd_ptr)),
                            XAt(a, i * a.C + (off - rstd_ptr))), buf[o])
             ELSE buf[o]])

\* The scratch offsets iteration i of step-1 reads and writes.
AccumulateTouched(a, tid, begin, i) ==
  LET n == DataIndexAt(begin, i, a.N, a.HxW)[1]
      mean_ptr == ThreadRegion(a, tid) + n * 2 * a.C
  IN  mean_ptr..(mean_ptr + 2 * a.C - 1)

RECURSIVE AccumulateRange(_, _, _, _, _, _)
AccumulateRange(a, buf, tid, begin, i, end) ==
  IF i >= end THEN buf
  ELSE AccumulateRange(a, AccumulateIter(a, buf, tid, begin, i), tid, begin, i + 1, end)

\* CombineSums reading thread 0's partial sums only.
CombineSumsThread0(a, buf, n, g) ==
  <<VSum([d \in 1..DOf(a) |-> At(buf, n * 2 * a.C + g * DOf(a) + d - 1)]),
    VSum([d \in 1..DOf(a) |-> At(buf, n * 2 * a.C + g * DOf(a) + d - 1 + a.C)])>>

\* step-2 for unit (n, g): the sums over the threads' partial sums.
CombineSums(a, buf, n, g) ==
  LET Dv == DOf(a)
      T == a.num_threads
      At2(t, d, plus) == At(buf, t * a.N * 2 * a.C + n * 2 * a.C + g * Dv + d + plus)
      ix(j) == <<(j - 1) \div T, (j - 1) % T>>
  IN  <<VSum([j \in 1..(Dv * T) |-> At2(ix(j)[2], ix(j)[1], 0)]),
        VSum([j \in 1..(Dv * T) |-> At2(ix(j)[2], ix(j)[1], a.C)])>>

\* The scratch offsets step-2 reads for unit (n, g): buffer_ptr[g * D + d]
\* and buffer_ptr[g * D + d + C] with buffer_ptr = buffer_data +
\* t * N * 2 * C + n * 2 * C, for every d and every thread t.
CombineReads(a, n, g) ==
  {t * a.N * 2 * a.C + n * 2 * a.C + g * DOf(a) + d + plus :
     t \in 0..(a.num_threads - 1), d \in 0..(DOf(a) - 1), plus \in {0, a.C}}
\* The scratch offsets step-3 writes for unit (n, g): scale_ptr[c] and
\* bias_ptr[c] with scale_ptr = buffer_data + n * 2 * C.
MaterializeWrites(a, n, g) ==
  {n * 2 * a.C + g * DOf(a) + d + plus : d \in 0..(DOf(a) - 1), plus \in {0, a.C}}

\* mean_val *= s; rstd_val = max(rstd_val * s - mean_val * mean_val, 0);
\* rstd_val = 1 / sqrt(rstd_val + eps)            (impl-2, lines 426-428)
Impl2MeanRstd(sum, sumsq, s, e) ==
  LET mean_val == VMul(sum, s)
      var == VMax0(VSub(VMul(sumsq, s), VMul(mean_val, mean_val)))
  IN  [mean |-> mean_val, rstd |-> VRsqrt(VAdd(var, e))]

\* step-3 for unit (n, g): scale and bias of the unit's channels, stored at
\* buffer_data + n * 2 * C + c  and  + C + c.
Materialize(a, buf, n, g, mean_val, rstd_val) ==
  LET Dv == DOf(a)
      scale_ptr == n * 2 * a.C
      bias_ptr == scale_ptr + a.C
      cs == (g * Dv)..(g * Dv + Dv - 1)
  IN  [o \in DOMAIN buf |->
         LET off == o - 1
         IN  IF off - scale_ptr \in cs
             THEN ScaleOf(a, rstd_val, off - scale_ptr)
             ELSE IF off - bias_ptr \in cs
             THEN BiasOf(a, ScaleOf(a, rstd_val, off - bias_ptr), mean_val,
                         off - bias_ptr)
             ELSE buf[o]]

\* What impl-2 computes for unit (n, g) when one thread runs every chunk:
\* mean and rstd from the sums of step-1 and step-2, the scale and bias of
\* step-3, and the values step-4 stores to Y at the unit's offsets.
Impl2UnitFrom(a, n, g, st) ==
  [mean |-> st.mean, rstd |-> st.rstd,
   y |-> Eager([off \in {Impl1Base(a, n, g) + m * a.C + d :
                           m \in 0..(a.HxW - 1), d \in 0..(DOf(a) - 1)} |->
            VAdd(VMul(XAt(a, off), ScaleOf(a, st.rstd, off % a.C)),
                 BiasOf(a, ScaleOf(a, st.rstd, off % a.C), st.mean, off % a.C))])]
Impl2Stat(sums, s, e) == Impl2MeanRstd(sums[1], sums[2], s, e)
Impl2Unit(a, n, g) ==
  Impl2UnitFrom(a, n, g,
    Impl2Stat(CombineSums([a EXCEPT !.num_threads = 1],
                          AccumulateRange(a, Fill(a.N * 2 * a.C, V0), 0, 0, 0,
                                          a.N * a.HxW), n, g),
              VRecip(DOf(a) * a.HxW), a.eps))

\* step-4, iteration i of a loop begun at begin: the value stored at
\* Y_data + i * C + d.
ApplyIter(a, buf, begin, i, d) ==
  LET n == DataIndexAt(begin, i, a.N, a.HxW)[1]
      scale_ptr == n * 2 * a.C
      bias_ptr == scale_ptr + a.C
  IN  VAdd(VMul(XAt(a, i * a.C + d), At(buf, scale_ptr + d)), At(buf, bias_ptr + d))

(***************************************************************************)
(* The two layouts of the same logical data [n, c, k].                     *)
(***************************************************************************)
\* The channels-last offset of the element at packed offset o.
ToChannelsLast(o, Cv, HxWv) ==
  LET k == o % HxWv
      c == (o \div HxWv) % Cv
      n == o \div (HxWv * Cv)
  IN  (n * HxWv + k) * Cv + c
\* The packed offset of the element at channels-last offset o.
ToContiguous(o, Cv, HxWv) ==
  LET c == o % Cv
      k == (o \div Cv) % HxWv
      n == o \div (HxWv * Cv)
  IN  (n * Cv + c) * HxWv + k

\* Pattern p stored in the given layout, with extra elements appended.
XData(p, layout, Nv, Cv, HxWv, extra) ==
  [o \in 1..(Nv * Cv * HxWv + extra) |->
     IF layout = "Contiguous" \/ o > Nv * Cv * HxWv
     THEN XGen(p, o - 1)
     ELSE XGen(p, ToContiguous(o - 1, Cv, HxWv))]

NoHist ==
  [wY |-> {}, wMean |-> {}, wRstd |-> {}, acc |-> {},
   accDone |-> {}, combDone |-> {}, matDone |-> {}, applyDone |-> {},
   combRead |-> {}, matWrote |-> {}, wScratch |-> {},
   wdX |-> {}, wdgamma |-> {}, wdbeta |-> {}]

Wants == [dX : BOOLEAN, dgamma : BOOLEAN, dbeta : BOOLEAN]
NoWants == [dX |-> FALSE, dgamma |-> FALSE, dbeta |-> FALSE]
AllWants == [dX |-> TRUE, dgamma |-> TRUE, dbeta |-> TRUE]

\* The parallel paths use the thread count only in impl-2.
UsesThreads(s, layout) == layout = "ChannelsLast" /\ s.HxW >= feature_map_threshold

InitFwdFrom(mem) ==
  \E s \in Shapes, layout \in Layouts, p \in 1..NumPatterns,
     gc \in GammaChoices, bc \in BetaChoices, e \in EpsChoices,
     bad \in FwdBad, T \in 1..MaxThreads :
    /\ <<gc, bc>> \in AffineChoices
    /\ bad = "gamma" => gc # "none"
    /\ bad = "beta" => bc # "none"
    /\ ~UsesThreads(s, layout) => T = 1
    /\ call = [op |-> "fwd", layout |-> layout, N |-> s.N, C |-> s.C, HxW |-> s.HxW,
               group |-> s.group, eps |-> e,
               X |-> Tensor(XData(p, layout, s.N, s.C, s.HxW, Extra(bad, "X"))),
               gamma |-> GammaGen(gc, s.C + Extra(bad, "gamma")),
               beta |-> BetaGen(bc, s.C + Extra(bad, "beta")),
               dY |-> Undefined, num_threads |-> T, want |-> NoWants,
               mixed |-> FALSE]
    /\ prior = mem
    /\ Y = Fill(s.N * s.C * s.HxW, mem.out)
    /\ mean = Fill(s.N * s.group, mem.out)
    /\ rstd = Fill(s.N * s.group, mem.out)
    /\ dX = <<>> /\ dgamma = <<>> /\ dbeta = <<>>
    /\ buffer = <<>> /\ tmp_buffer = <<>> /\ ds = <<>> /\ db = <<>>
    /\ pc = "start" /\ todo = {} /\ idx = 0 /\ workers = {}
    /\ hist = NoHist
InitFwd == InitFwdFrom(DefaultPrior)

\* [begin, end) is a contiguous chunk of the range that is still to be run.
IsChunk(begin, end) == begin < end /\ \A i \in begin..(end - 1) : i \in todo

\* ForwardChecks with the check of beta left out.
ForwardChecksNoBeta ==
  /\ numel(X) = N * C * HxW
  /\ gamma_null \/ numel(gamma) = C

\* TORCH_CHECK(X.numel() == N * C * HxW); TORCH_CHECK(!gamma.defined() ||
\* gamma.numel() == C); TORCH_CHECK(!beta.defined() || beta.numel() == C)
ForwardChecks ==
  /\ numel(X) = N * C * HxW
  /\ gamma_null \/ numel(gamma) = C
  /\ beta_null \/ numel(beta) = C

\* GroupNormKernelImpl up to the first parallel_for: the dispatch on the
\* memory format, the checks, and the allocation of the scratch tensors.
GroupNormKernelImpl ==
  /\ pc = "start" /\ call.op = "fwd"
  /\ IF ~ForwardChecks
     THEN /\ pc' = "error"
          /\ UNCHANGED <<buffer, tmp_buffer, todo>>
     ELSE IF call.layout = "Contiguous"
     THEN /\ pc' = "packed"
          /\ todo' = 0..(N * G - 1)
          /\ UNCHANGED <<buffer, tmp_buffer>>
     ELSE IF HxW < feature_map_threshold
     THEN /\ pc' = "impl1"
          /\ buffer' = Fill(N * G * 2 * D, prior.scratch)
          /\ todo' = 0..(N * G - 1)
          /\ UNCHANGED tmp_buffer
     ELSE /\ pc' = "accumulate"
          /\ buffer' = Fill(num_threads * N * 2 * C, V0)
          /\ tmp_buffer' = Fill(N * 2 * G, prior.scratch)
          /\ todo' = 0..(N * HxW - 1)
  /\ UNCHANGED <<call, prior, Y, mean, rstd, dX, dgamma, dbeta, ds, db, idx, workers, hist>>

\* buf with the stores of w (offset |-> value) done.
Store(buf, w) == [o \in DOMAIN buf |-> IF (o - 1) \in DOMAIN w THEN w[o - 1] ELSE buf[o]]
\* The union of the functions us[i], i \in S, whose domains are disjoint.
Merge(us, S) ==
  Eager([off \in UNION {DOMAIN us[i] : i \in S} |->
           us[CHOOSE i \in S : off \in DOMAIN us[i]][off]])
\* Who stored where: <<offset, iteration>>.
Wrote(us, S) == UNION {{<<off, i>> : off \in DOMAIN us[i]} : i \in S}
Own(S) == {<<i, i>> : i \in S}

\* The body of the packed forward's parallel_for on chunk [begin, end).
PackedChunk(begin, end) ==
  /\ pc = "packed"
  /\ IsChunk(begin, end)
  /\ \E us \in {Eager([i \in begin..(end - 1) |-> PackedUnit(call, i)])} :
     LET S == begin..(end - 1)
         ys == [i \in S |-> us[i].y]
     IN  /\ Y' = Store(Y, Merge(ys, S))
         /\ mean' = Store(mean, [i \in S |-> us[i].mean])
         /\ rstd' = Store(rstd, [i \in S |-> us[i].rstd])
         /\ hist' = [hist EXCEPT !.wY = @ \cup Wrote(ys, S),
                                 !.wMean = @ \cup Own(S),
                                 !.wRstd = @ \cup Own(S)]
  /\ todo' = todo \ (begin..(end - 1))
  /\ pc' = IF todo' = {} THEN "done" ELSE pc
  /\ UNCHANGED <<call, prior, dX, dgamma, dbeta, buffer, tmp_buffer, ds, db, idx, workers>>

\* The body of impl-1's parallel_for on chunk [begin, end).
Impl1Chunk(begin, end) ==
  /\ pc = "impl1"
  /\ IsChunk(begin, end)
  /\ \E us \in {Eager([i \in begin..(end - 1) |->
                          Impl1Unit(call, DataIndexAt(begin, i, N, G)[1],
                                    DataIndexAt(begin, i, N, G)[2])])} :
     LET S == begin..(end - 1)
         ys == [i \in S |-> us[i].y]
         sb == [i \in S |->
                  [off \in Impl1Scratch(call, i)..(Impl1Scratch(call, i) + 2 * D - 1) |->
                     IF off - Impl1Scratch(call, i) < D
                     THEN us[i].scale[off - Impl1Scratch(call, i)]
                     ELSE us[i].bias[off - Impl1Scratch(call, i) - D]]]
     IN  /\ Y' = Store(Y, Merge(ys, S))
         /\ mean' = Store(mean, [i \in S |-> us[i].mean])
         /\ rstd' = Store(rstd, [i \in S |-> us[i].rstd])
         /\ buffer' = Store(buffer, Merge(sb, S))
         /\ hist' = [hist EXCEPT !.wY = @ \cup Wrote(ys, S),
                                 !.wMean = @ \cup Own(S),
                                 !.wRstd = @ \cup Own(S),
                                 !.wScratch = @ \cup Wrote(sb, S)]
  /\ todo' = todo \ (begin..(end - 1))
  /\ pc' = IF todo' = {} THEN "done" ELSE pc
  /\ UNCHANGED <<call, prior, dX, dgamma, dbeta, tmp_buffer, ds, db, idx, workers>>

\* Accumulate with the serial steps begun as soon as one chunk is done.
AccumulateNoJoin(tid, begin, end) ==
  /\ pc = "accumulate"
  /\ tid < num_threads
  /\ IsChunk(begin, end)
  /\ buffer' = AccumulateRange(call, buffer, tid, begin, begin, end)
  /\ hist' = [hist EXCEPT
                !.acc = @ \cup UNION {{<<tid, off>> :
                           off \in AccumulateTouched(call, tid, begin, i)} :
                           i \in begin..(end - 1)},
                !.accDone = @ \cup (begin..(end - 1))]
  /\ todo' = todo \ (begin..(end - 1))
  /\ pc' = "combine"
  /\ idx' = 0
  /\ UNCHANGED <<call, prior, Y, mean, rstd, dX, dgamma, dbeta, tmp_buffer, ds, db, workers>>

\* impl-2 step-1: thread tid runs the first parallel_for's body on chunk
\* [begin, end).  When the range is exhausted parallel_for returns.
Accumulate(tid, begin, end) ==
  /\ pc = "accumulate"
  /\ tid < num_threads
  /\ IsChunk(begin, end)
  /\ LET S == begin..(end - 1)
     IN  /\ buffer' = AccumulateRange(call, buffer, tid, begin, begin, end)
         /\ hist' = [hist EXCEPT
                       !.acc = @ \cup UNION {{<<tid, off>> :
                                  off \in AccumulateTouched(call, tid, begin, i)} : i \in S},
                       !.accDone = @ \cup S]
  /\ todo' = todo \ (begin..(end - 1))
  /\ pc' = IF todo' = {} THEN "combine" ELSE pc
  /\ idx' = 0
  /\ UNCHANGED <<call, prior, Y, mean, rstd, dX, dgamma, dbeta, tmp_buffer, ds, db, workers>>

\* Combine with step-3 fused into the loop of step-2: the unit's scale and
\* bias are stored to the scratch as soon as its mean and rstd are known.
CombineFused ==
  /\ pc = "combine"
  /\ LET n == idx \div G
         g == idx % G
         sums == CombineSums(call, buffer, n, g)
         st == Impl2MeanRstd(sums[1], sums[2], VRecip(D * HxW), eps)
     IN  /\ tmp_buffer' = Store(tmp_buffer,
                                [off \in {n * 2 * G + 2 * g, n * 2 * G + 2 * g + 1} |->
                                   IF off = n * 2 * G + 2 * g THEN st.mean ELSE st.rstd])
         /\ buffer' = Materialize(call, buffer, n, g, st.mean, st.rstd)
         /\ hist' = [hist EXCEPT
                       !.combDone = @ \cup {idx},
                       !.combRead = @ \cup {<<o, hist.matWrote # {}>> :
                                              o \in CombineReads(call, n, g)},
                       !.matWrote = @ \cup MaterializeWrites(call, n, g)]
  /\ idx' = IF idx + 1 < N * G THEN idx + 1 ELSE 0
  /\ pc' = IF idx + 1 < N * G THEN pc ELSE "materialize"
  /\ UNCHANGED <<call, prior, Y, mean, rstd, dX, dgamma, dbeta, ds, db, todo, workers>>

\* impl-2 step-2, one iteration (n, g) of the serial loops.  The history
\* notes of every scratch location read whether step-3 had written to the
\* scratch before.
Combine ==
  /\ pc = "combine"
  /\ LET n == idx \div G
         g == idx % G
         sums == CombineSums(call, buffer, n, g)
         st == Impl2MeanRstd(sums[1], sums[2], VRecip(D * HxW), eps)
     IN  /\ tmp_buffer' = Store(tmp_buffer,
                                [off \in {n * 2 * G + 2 * g, n * 2 * G + 2 * g + 1} |->
                                   IF off = n * 2 * G + 2 * g THEN st.mean ELSE st.rstd])
         /\ hist' = [hist EXCEPT
                       !.combDone = @ \cup {idx},
                       !.combRead = @ \cup {<<o, hist.matWrote # {}>> :
                                              o \in CombineReads(call, n, g)}]
  /\ idx' = IF idx + 1 < N * G THEN idx + 1 ELSE 0
  /\ pc' = IF idx + 1 < N * G THEN pc ELSE "materialize"
  /\ UNCHANGED <<call, prior, Y, mean, rstd, dX, dgamma, dbeta, buffer, ds, db, todo, workers>>

\* impl-2 step-3, one iteration (n, g) of the serial loops.  After the last
\* one the second parallel_for starts.
MaterializeStep ==
  /\ pc = "materialize"
  /\ LET n == idx \div G
         g == idx % G
         mean_val == At(tmp_buffer, n * 2 * G + 2 * g)
         rstd_val == At(tmp_buffer, n * 2 * G + 2 * g + 1)
     IN  /\ mean' = Store(mean, [off \in {n * G + g} |-> mean_val])
         /\ rstd' = Store(rstd, [off \in {n * G + g} |-> rstd_val])
         /\ buffer' = Materialize(call, buffer, n, g, mean_val, rstd_val)
         /\ hist' = [hist EXCEPT !.matDone = @ \cup {idx},
                                 !.matWrote = @ \cup MaterializeWrites(call, n, g),
                                 !.wMean = @ \cup {<<n * G + g, idx>>},
                                 !.wRstd = @ \cup {<<n * G + g, idx>>}]
  /\ idx' = IF idx + 1 < N * G THEN idx + 1 ELSE 0
  /\ pc' = IF idx + 1 < N * G THEN pc ELSE "apply"
  /\ todo' = IF idx + 1 < N * G THEN todo ELSE 0..(N * HxW - 1)
  /\ UNCHANGED <<call, prior, Y, dX, dgamma, dbeta, tmp_buffer, ds, db, workers>>

\* impl-2 step-4: the second parallel_for's body on chunk [begin, end).
Apply(begin, end) ==
  /\ pc = "apply"
  /\ IsChunk(begin, end)
  /\ LET S == begin..(end - 1)
         ys == [i \in S |->
                  [off \in (i * C)..(i * C + C - 1) |->
                     ApplyIter(call, buffer, begin, i, off - i * C)]]
     IN  /\ Y' = Store(Y, Merge(ys, S))
         /\ hist' = [hist EXCEPT !.wY = @ \cup Wrote(ys, S),
                                 !.applyDone = @ \cup S]
  /\ todo' = todo \ (begin..(end - 1))
  /\ pc' = IF todo' = {} THEN "done" ELSE pc
  /\ UNCHANGED <<call, prior, mean, rstd, dX, dgamma, dbeta, buffer, tmp_buffer, ds, db,
                 idx, workers>>

(***************************************************************************)
(* Backward.  ds, db, mean, rstd, dgamma, dbeta are passed as buffers.     *)
(***************************************************************************)
\* ComputeInternalGradients, iteration i: lane l of ds_vec (prod = TRUE) or
\* db_vec (prod = FALSE) after the loop over j = 0, K, ... < inner_size.
GradLane(a, i, l, prod) ==
  LET nb == a.HxW \div K
      El(o) == IF prod THEN VMul(At(a.dY.data, o), XAt(a, o)) ELSE At(a.dY.data, o)
  IN  VSum([t \in 1..nb |-> El(i * a.HxW + (t - 1) * K + l)])

\* ds[i] (prod = TRUE) or db[i] (prod = FALSE): std::accumulate over the
\* lanes, then the scalar loop over j in [inner_size, HxW).
InternalGradient(a, i, prod) ==
  LET inner_size == (a.HxW \div K) * K
      El(o) == IF prod THEN VMul(At(a.dY.data, o), XAt(a, o)) ELSE At(a.dY.data, o)
  IN  VAdd(VSum([l \in 1..K |-> GradLane(a, i, l - 1, prod)]),
           VSum([j \in 1..(a.HxW - inner_size) |-> El(i * a.HxW + inner_size + j - 1)]))

\* InternalGradientBFloat16 with the second half of each load left out.
InternalGradientBFloat16LowHalf(a, i, prod) ==
  LET half == K \div 2
      nb == a.HxW \div K
      inner_size == nb * K
      El(o) == IF prod THEN VMul(At(a.dY.data, o), XAt(a, o)) ELSE At(a.dY.data, o)
      lane(l) == VSum([t \in 1..nb |-> El(i * a.HxW + (t - 1) * K + l)])
  IN  VAdd(VSum([l \in 1..half |-> lane(l - 1)]),
           VSum([j \in 1..(a.HxW - inner_size) |-> El(i * a.HxW + inner_size + j - 1)]))

\* ComputeInternalGradients<BFloat16, float>, iteration i: K = bVec::size()
\* elements are loaded at a time and converted to two float vectors of K / 2
\* lanes (the first and the second half of the load), both added into the
\* K / 2 lanes of ds_vec (prod = TRUE) or db_vec (prod = FALSE); then
\* std::accumulate over the lanes and the scalar loop over [inner_size, HxW).
InternalGradientBFloat16(a, i, prod) ==
  LET half == K \div 2
      nb == a.HxW \div K
      inner_size == nb * K
      El(o) == IF prod THEN VMul(At(a.dY.data, o), XAt(a, o)) ELSE At(a.dY.data, o)
      lane(l) == VSum([t \in 1..nb |->
                         VAdd(El(i * a.HxW + (t - 1) * K + l),
                              El(i * a.HxW + (t - 1) * K + half + l))])
  IN  VAdd(VSum([l \in 1..half |-> lane(l - 1)]),
           VSum([j \in 1..(a.HxW - inner_size) |-> El(i * a.HxW + inner_size + j - 1)]))

\* ComputeInternalGradients<T, PT> as GroupNormBackwardKernelImpl
\* instantiates it: <BFloat16, float> for a mixed-type call, <scalar_t,
\* scalar_t> otherwise.
GradientOf(a, i, prod) ==
  IF a.mixed THEN InternalGradientBFloat16(a, i, prod) ELSE InternalGradient(a, i, prod)

\* vec::Vectorized<PT>::size(): in a mixed-type call PT is float, with half
\* the lanes of the BFloat16 vector.
LanesPT(a) == IF a.mixed THEN K \div 2 ELSE K

\* ReduceUnit without the scalar loop over [d, D).
ReduceUnitNoRemainder(a, which, i) ==
  LET Dv == DOf(a)
      g == i % a.group
      Kv == LanesPT(a)
      nb == Dv \div Kv
      lane(l) == VSum([t \in 1..nb |->
                         VMul(At(which, i * Dv + (t - 1) * Kv + l),
                              GammaOr1(a, g * Dv + (t - 1) * Kv + l))])
  IN  VSum([l \in 1..Kv |-> lane(l - 1)])

\* GroupNormInputBackward, unit i: CalcDsDb over [0, d) by vectors, the lanes
\* summed, then the scalar loop over [d, D).  which is the ds or the db buffer.
ReduceUnit(a, which, i) ==
  LET Dv == DOf(a)
      g == i % a.group
      Kv == LanesPT(a)
      nb == Dv \div Kv
      d == nb * Kv
      lane(l) == VSum([t \in 1..nb |->
                         VMul(At(which, i * Dv + (t - 1) * Kv + l),
                              GammaOr1(a, g * Dv + (t - 1) * Kv + l))])
  IN  VAdd(VSum([l \in 1..Kv |-> lane(l - 1)]),
           VSum([j \in 1..(Dv - d) |->
                   VMul(At(which, i * Dv + d + j - 1), GammaOr1(a, g * Dv + d + j - 1))]))

\* c2 = (db_val * mean[i] - ds_val) * rstd[i] * rstd[i] * rstd[i] * s
C2Of(ds_val, db_val, mean_i, rstd_i, s) ==
  VMul(VMul(VMul(VMul(VSub(VMul(db_val, mean_i), ds_val), rstd_i), rstd_i), rstd_i), s)
\* c3 = -c2 * mean[i] - db_val * rstd[i] * s
C3Of(c2, db_val, mean_i, rstd_i, s) ==
  VSub(VMul(VNeg(c2), mean_i), VMul(VMul(db_val, rstd_i), s))

\* What unit i's iteration of GroupNormInputBackward stores to dX.
InputBackwardFrom(a, meanb, rstdb, i, db_val, c2) ==
  LET Dv == DOf(a)
      g == i % a.group
      s == VRecip(Dv * a.HxW)
      c3 == C3Of(c2, db_val, At(meanb, i), At(rstdb, i), s)
      c1 == Eager([j \in 0..(Dv - 1) |-> VMul(At(rstdb, i), GammaOr1(a, g * Dv + j))])
  IN  Eager([off \in (i * Dv * a.HxW)..((i + 1) * Dv * a.HxW - 1) |->
         VAdd(VAdd(VMul(c1[(off \div a.HxW) - i * Dv], At(a.dY.data, off)),
                   VMul(c2, XAt(a, off))), c3)])
InputBackwardSums(a, meanb, rstdb, i, ds_val, db_val) ==
  InputBackwardFrom(a, meanb, rstdb, i, db_val,
                    C2Of(ds_val, db_val, At(meanb, i), At(rstdb, i),
                         VRecip(DOf(a) * a.HxW)))
InputBackwardUnit(a, dsb, dbb, meanb, rstdb, i) ==
  InputBackwardSums(a, meanb, rstdb, i, ReduceUnit(a, dsb, i), ReduceUnit(a, dbb, i))

\* GammaSlot with the group stride D left out.
GammaSlotNoStride(a, g, j) == g + j

\* const int64_t c = g * D + j   (GammaBackward)
GammaSlot(a, g, j) == g * DOf(a) + j
\* GammaZeroed with the slice of the first group only.
GammaZeroedFirstGroup(a, start, end) == {start + t : t \in 0..(end - start - 1)}

\* The offsets std::memset clears in GammaBackward's chunk [start, end).
GammaZeroed(a, start, end) ==
  {i * DOf(a) + start + t : i \in 0..(a.group - 1), t \in 0..(end - start - 1)}
\* The offsets the accumulation loop of chunk [start, end) adds to.
GammaSlots(a, start, end) ==
  {GammaSlot(a, i % a.group, j) : i \in 0..(a.N * a.group - 1), j \in start..(end - 1)}

\* dgamma after iterations i, i + 1, ..., N * G - 1 of the accumulation loop
\* of chunk [start, end).
RECURSIVE GammaAccumulateFrom(_, _, _, _, _, _, _, _, _)
GammaAccumulateFrom(a, dg, dsb, dbb, meanb, rstdb, start, end, i) ==
  IF i >= a.N * a.group THEN dg
  ELSE LET g == i % a.group
           Dv == DOf(a)
           nxt == Eager([o \in DOMAIN dg |->
                    IF \E j \in start..(end - 1) : GammaSlot(a, g, j) = o - 1
                    THEN LET j == CHOOSE j \in start..(end - 1) : GammaSlot(a, g, j) = o - 1
                         IN  VAdd(dg[o],
                                  VMul(VSub(At(dsb, i * Dv + j),
                                            VMul(At(dbb, i * Dv + j), At(meanb, i))),
                                       At(rstdb, i)))
                    ELSE dg[o]])
       IN  GammaAccumulateFrom(a, nxt, dsb, dbb, meanb, rstdb, start, end, i + 1)

\* dbeta after the accumulation loop of BetaBackward's chunk [start, end).
BetaAccumulated(a, dbt, dbb, start, end) ==
  [o \in DOMAIN dbt |->
     IF o - 1 \in start..(end - 1)
     THEN VAdd(dbt[o], VSum([i \in 1..a.N |-> At(dbb, (i - 1) * a.C + o - 1)]))
     ELSE dbt[o]]

\* Zeroed with the std::memset left out.
ZeroedKeep(buf, S) == buf

\* buf with the offsets of S set to zero.
Zeroed(buf, S) == [o \in DOMAIN buf |-> IF o - 1 \in S THEN V0 ELSE buf[o]]

\* Backward data: the upstream gradient, the saved statistics.
MeanGen(n) == [i \in 1..n |-> VInt((i % 3) - 1)]
RstdGen(n) == [i \in 1..n |-> VInt(1 + (i % 2))]
BwdGammaChoices == {"none", "ramp"}

InitBwdFrom(mem) ==
  \E s \in Shapes, p \in 1..NumPatterns, gc \in BwdGammaChoices, w \in Wants,
     bad \in BwdBad, mixed \in BOOLEAN :
    /\ bad = "gamma" => gc # "none"
    /\ mixed => (gc # "none" /\ bad = "ok" /\ w = AllWants)
    /\ call = [op |-> "bwd", layout |-> "Contiguous", N |-> s.N, C |-> s.C,
               HxW |-> s.HxW, group |-> s.group, eps |-> V0,
               X |-> Tensor(DataGen(p, s.N * s.C * s.HxW + Extra(bad, "X"))),
               gamma |-> GammaGen(gc, s.C + Extra(bad, "gamma")),
               beta |-> Undefined,
               dY |-> Tensor(DataGen(p + 1, s.N * s.C * s.HxW + Extra(bad, "dY"))),
               num_threads |-> 1, want |-> w, mixed |-> mixed]
    /\ Y = <<>>
    /\ mean = MeanGen(s.N * s.group + Extra(bad, "mean"))
    /\ rstd = RstdGen(s.N * s.group + Extra(bad, "rstd"))
    /\ prior = mem
    /\ dX = Fill(s.N * s.C * s.HxW, mem.out)
    /\ dgamma = Fill(s.C, mem.out)
    /\ dbeta = Fill(s.C, mem.out)
    /\ buffer = <<>> /\ tmp_buffer = <<>> /\ ds = <<>> /\ db = <<>>
    /\ pc = "start" /\ todo = {} /\ idx = 0 /\ workers = {}
    /\ hist = NoHist
InitBwd == InitBwdFrom(DefaultPrior)

\* The five TORCH_CHECKs of GroupNormBackwardKernelImplInternal.
BackwardChecks ==
  /\ numel(dY) = N * C * HxW
  /\ numel(X) = N * C * HxW
  /\ Len(mean) = N * group
  /\ Len(rstd) = N * group
  /\ gamma_null \/ numel(gamma) = C

\* BackwardStepAfter with GammaBackward run whether or not dgamma is defined.
BackwardStepGammaAlways(after) ==
  IF after = "grads" /\ call.want.dX THEN "dx"
  ELSE IF after \in {"grads", "dx"} THEN "dgamma"
  ELSE IF after \in {"grads", "dx", "dgamma"} /\ call.want.dbeta THEN "dbeta"
  ELSE "done"

\* The step of GroupNormBackwardKernelImplInternal that follows step `after`:
\* each of the three kernels runs only if its output tensor is defined.
BackwardStepAfter(after) ==
  IF after = "grads" /\ call.want.dX THEN "dx"
  ELSE IF after \in {"grads", "dx"} /\ call.want.dgamma THEN "dgamma"
  ELSE IF after \in {"grads", "dx", "dgamma"} /\ call.want.dbeta THEN "dbeta"
  ELSE "done"
\* The range of the parallel_for of a step.
RangeOf(step) ==
  IF step = "dx" THEN 0..(N * G - 1)
  ELSE IF step = "dgamma" THEN 0..(D - 1)
  ELSE IF step = "dbeta" THEN 0..(C - 1)
  ELSE {}

\* GroupNormBackwardKernelImpl up to the first parallel_for.
GroupNormBackwardKernelImpl ==
  /\ pc = "start" /\ call.op = "bwd"
  /\ IF ~BackwardChecks
     THEN /\ pc' = "error"
          /\ UNCHANGED <<ds, db, todo>>
     ELSE /\ pc' = "grads"
          /\ ds' = Fill(N * C, prior.scratch)
          /\ db' = Fill(N * C, prior.scratch)
          /\ todo' = 0..(N * C - 1)
  /\ UNCHANGED <<call, prior, Y, mean, rstd, dX, dgamma, dbeta, buffer, tmp_buffer, idx,
                 workers, hist>>

\* The body of ComputeInternalGradients' parallel_for on chunk [begin, end).
ComputeInternalGradients(begin, end) ==
  /\ pc = "grads"
  /\ IsChunk(begin, end)
  /\ LET S == begin..(end - 1)
     IN  /\ ds' = Store(ds, [i \in S |-> GradientOf(call, i, TRUE)])
         /\ db' = Store(db, [i \in S |-> GradientOf(call, i, FALSE)])
  /\ todo' = IF todo = begin..(end - 1) THEN RangeOf(BackwardStepAfter("grads"))
             ELSE todo \ (begin..(end - 1))
  /\ pc' = IF todo = begin..(end - 1) THEN BackwardStepAfter("grads") ELSE pc
  /\ UNCHANGED <<call, prior, Y, mean, rstd, dX, dgamma, dbeta, buffer, tmp_buffer, idx,
                 workers, hist>>

\* The body of GroupNormInputBackward's parallel_for on chunk [begin, end).
GroupNormInputBackward(begin, end) ==
  /\ pc = "dx"
  /\ IsChunk(begin, end)
  /\ \E us \in {Eager([i \in begin..(end - 1) |->
                          InputBackwardUnit(call, ds, db, mean, rstd, i)])} :
     LET S == begin..(end - 1)
     IN  /\ dX' = Store(dX, Merge(us, S))
         /\ hist' = [hist EXCEPT !.wdX = @ \cup Wrote(us, S)]
  /\ todo' = IF todo = begin..(end - 1) THEN RangeOf(BackwardStepAfter("dx"))
             ELSE todo \ (begin..(end - 1))
  /\ pc' = IF todo = begin..(end - 1) THEN BackwardStepAfter("dx") ELSE pc
  /\ UNCHANGED <<call, prior, Y, mean, rstd, dgamma, dbeta, buffer, tmp_buffer, ds, db, idx,
                 workers>>

\* A worker of GammaBackward takes chunk [start, end) and clears its slice in
\* every group (the std::memset loop).
GammaZero(start, end) ==
  /\ pc = "dgamma"
  /\ IsChunk(start, end)
  /\ dgamma' = Zeroed(dgamma, GammaZeroed(call, start, end))
  /\ hist' = [hist EXCEPT !.wdgamma = @ \cup {<<o, start>> :
                                               o \in GammaZeroed(call, start, end)}]
  /\ workers' = workers \cup {<<start, end>>}
  /\ todo' = todo \ (start..(end - 1))
  /\ UNCHANGED <<call, prior, Y, mean, rstd, dX, dbeta, buffer, tmp_buffer, ds, db, pc, idx>>

\* The worker of chunk [start, end) runs its accumulation loop and ends.
\* parallel_for returns when no chunk is left and no worker is running.
GammaAccumulate(start, end) ==
  /\ pc = "dgamma"
  /\ <<start, end>> \in workers
  /\ dgamma' = GammaAccumulateFrom(call, dgamma, ds, db, mean, rstd, start, end, 0)
  /\ hist' = [hist EXCEPT !.wdgamma = @ \cup {<<o, start>> :
                                               o \in GammaSlots(call, start, end)}]
  /\ workers' = workers \ {<<start, end>>}
  /\ pc' = IF todo = {} /\ workers' = {} THEN BackwardStepAfter("dgamma") ELSE pc
  /\ todo' = IF todo = {} /\ workers' = {} THEN RangeOf(BackwardStepAfter("dgamma"))
             ELSE todo
  /\ UNCHANGED <<call, prior, Y, mean, rstd, dX, dbeta, buffer, tmp_buffer, ds, db, idx>>

\* A worker of BetaBackward takes chunk [start, end) and clears its slice.
BetaZero(start, end) ==
  /\ pc = "dbeta"
  /\ IsChunk(start, end)
  /\ dbeta' = Zeroed(dbeta, start..(end - 1))
  /\ hist' = [hist EXCEPT !.wdbeta = @ \cup {<<o, start>> : o \in start..(end - 1)}]
  /\ workers' = workers \cup {<<start, end>>}
  /\ todo' = todo \ (start..(end - 1))
  /\ UNCHANGED <<call, prior, Y, mean, rstd, dX, dgamma, buffer, tmp_buffer, ds, db, pc, idx>>

\* The worker of chunk [start, end) runs its accumulation loop and ends.
BetaAccumulate(start, end) ==
  /\ pc = "dbeta"
  /\ <<start, end>> \in workers
  /\ dbeta' = BetaAccumulated(call, dbeta, db, start, end)
  /\ hist' = [hist EXCEPT !.wdbeta = @ \cup {<<o, start>> : o \in start..(end - 1)}]
  /\ workers' = workers \ {<<start, end>>}
  /\ pc' = IF todo = {} /\ workers' = {} THEN "done" ELSE pc
  /\ UNCHANGED <<call, prior, Y, mean, rstd, dX, dgamma, buffer, tmp_buffer, ds, db, todo, idx>>

NextFwd ==
  \/ GroupNormKernelImpl
  \/ \E b \in 0..(MaxNumel - 1), e \in 1..MaxNumel : PackedChunk(b, e)
  \/ \E b \in 0..(MaxNumel - 1), e \in 1..MaxNumel : Impl1Chunk(b, e)
  \/ \E t \in 0..(MaxThreads - 1), b \in 0..(MaxNumel - 1), e \in 1..MaxNumel :
       Accumulate(t, b, e)
  \/ Combine
  \/ MaterializeStep
  \/ \E b \in 0..(MaxNumel - 1), e \in 1..MaxNumel : Apply(b, e)

SpecFwd == InitFwd /\ [][NextFwd]_vars

(***************************************************************************)
(* The three places that turn moments into rstd, applied to moments as     *)
(* they may come out of the floating-point sums: the variance may be       *)
(* below zero.                                                             *)
(***************************************************************************)
MomentEps == {V0, VQ(<<1, 2>>), V1}
InitMoments ==
  \E sum \in (-MaxSum)..MaxSum, sumsq \in 0..MaxSum, n \in 1..MaxHxW,
     v \in (-MaxSum)..MaxSum, e \in MomentEps :
    /\ call = [op |-> "moments", sum |-> VInt(sum), sumsq |-> VInt(sumsq),
               s |-> VRecip(n), var |-> VQ(<<v, 2>>), eps |-> e]
    /\ prior = DefaultPrior
    /\ Y = <<>> /\ mean = <<>> /\ rstd = <<>>
    /\ dX = <<>> /\ dgamma = <<>> /\ dbeta = <<>>
    /\ buffer = <<>> /\ tmp_buffer = <<>> /\ ds = <<>> /\ db = <<>>
    /\ pc = "start" /\ todo = {} /\ idx = 0 /\ workers = {}
    /\ hist = NoHist

\* rstd_val = 1 / sqrt(max(rstd_val, 0) + eps) of the packed forward.
RstdPacked ==
  /\ pc = "start" /\ call.op = "moments"
  /\ rstd' = <<PackedRstd(call.var, call.eps)>>
  /\ pc' = "rstd_packed"
  /\ UNCHANGED <<call, prior, Y, mean, dX, dgamma, dbeta, buffer, tmp_buffer, ds, db, todo,
                 idx, workers, hist>>
\* lines 351-353 of impl-1.
RstdImpl1 ==
  /\ pc = "start" /\ call.op = "moments"
  /\ mean' = <<Impl1MeanRstd(call.sum, call.sumsq, call.s, call.eps).mean>>
  /\ rstd' = <<Impl1MeanRstd(call.sum, call.sumsq, call.s, call.eps).rstd>>
  /\ pc' = "rstd_impl1"
  /\ UNCHANGED <<call, prior, Y, dX, dgamma, dbeta, buffer, tmp_buffer, ds, db, todo,
                 idx, workers, hist>>
\* lines 426-428 of impl-2.
RstdImpl2 ==
  /\ pc = "start" /\ call.op = "moments"
  /\ mean' = <<Impl2MeanRstd(call.sum, call.sumsq, call.s, call.eps).mean>>
  /\ rstd' = <<Impl2MeanRstd(call.sum, call.sumsq, call.s, call.eps).rstd>>
  /\ pc' = "rstd_impl2"
  /\ UNCHANGED <<call, prior, Y, dX, dgamma, dbeta, buffer, tmp_buffer, ds, db, todo,
                 idx, workers, hist>>

NextMoments == RstdPacked \/ RstdImpl1 \/ RstdImpl2

NextBwd ==
  \/ GroupNormBackwardKernelImpl
  \/ \E b \in 0..(MaxNumel - 1), e \in 1..MaxNumel : ComputeInternalGradients(b, e)
  \/ \E b \in 0..(MaxNumel - 1), e \in 1..MaxNumel : GroupNormInputBackward(b, e)
  \/ \E b \in 0..(MaxC - 1), e \in 1..MaxC : GammaZero(b, e)
  \/ \E b \in 0..(MaxC - 1), e \in 1..MaxC : GammaAccumulate(b, e)
  \/ \E b \in 0..(MaxC - 1), e \in 1..MaxC : BetaZero(b, e)
  \/ \E b \in 0..(MaxC - 1), e \in 1..MaxC : BetaAccumulate(b, e)

SpecBwd == InitBwd /\ [][NextBwd]_vars

Init == InitFwd \/ InitBwd \/ InitMoments
Next == NextFwd \/ NextBwd \/ NextMoments
Spec == Init /\ [][Next]_vars

\* The forward and backward calls made with either content of the memory
\* they are handed.
InitAnyPrior == \E mem \in PriorChoices : InitFwdFrom(mem) \/ InitBwdFrom(mem)
NextKernels == NextFwd \/ NextBwd
SpecAnyPrior == InitAnyPrior /\ [][NextKernels]_vars

(***************************************************************************)
(* Properties.                                                             *)
(***************************************************************************)
\* buf holds what the caller left in it.
Untouched(buf) == \A i \in DOMAIN buf : buf[i] = prior.out
\* No output location of the call has been written.
OutputsUntouched ==
  IF call.op = "fwd" THEN Untouched(Y) /\ Untouched(mean) /\ Untouched(rstd)
  ELSE Untouched(dX) /\ Untouched(dgamma) /\ Untouched(dbeta)
\* No scratch tensor has been allocated and no kernel has run.
NothingComputed ==
  /\ buffer = <<>> /\ tmp_buffer = <<>> /\ ds = <<>> /\ db = <<>>
  /\ hist = NoHist
IsKernelCall == call.op \in {"fwd", "bwd"}

\* C1: a forward or backward call whose C is not divisible by G is rejected
\* before any element of any output buffer is written: it is at its entry
\* or in the error state, and Y, mean, rstd (forward) or dX, dgamma, dbeta
\* (backward) are as the caller left them.
C1_NonDivisibleRejected ==
  (IsKernelCall /\ C % G # 0) => (pc \in {"start", "error"} /\ OutputsUntouched)

\* The element counts of the call do not match N, C, HxW, G.
CountMismatch ==
  IF call.op = "fwd"
  THEN \/ Len(call.X.data) # N * C * HxW
       \/ call.gamma.defined /\ Len(call.gamma.data) # C
       \/ call.beta.defined /\ Len(call.beta.data) # C
  ELSE \/ Len(call.dY.data) # N * C * HxW
       \/ Len(call.X.data) # N * C * HxW
       \/ Len(mean) # N * G
       \/ Len(rstd) # N * G
       \/ call.gamma.defined /\ Len(call.gamma.data) # C

\* C2: a call with an element-count mismatch fails before any computation
\* begins: it never leaves its entry except to the error state, every output
\* buffer is unchanged and no scratch tensor or partial result exists.
C2_MismatchFailsFirst ==
  (IsKernelCall /\ CountMismatch) =>
    (pc \in {"start", "error"} /\ OutputsUntouched /\ NothingComputed)
\* A backward call whose rstd has one element too many, everything else
\* matching, has been rejected.
C2_Witness ==
  /\ pc = "error" /\ call.op = "bwd"
  /\ Len(rstd) # N * G /\ Len(mean) = N * G
  /\ Len(call.dY.data) = N * C * HxW /\ Len(call.X.data) = N * C * HxW
  /\ C % G = 0

\* The offsets a write log names.
Offsets(log) == {w[1] : w \in log}

\* C3: in the backward call each of dX, dgamma, dbeta is computed if and only
\* if it is requested: a buffer that is not requested is never written, and
\* when the call returns a requested buffer has been written over the whole
\* range of its kernel (dX: N*G units of D*HxW elements, dgamma: G*D slots,
\* dbeta: C slots).
C3_ComputedIffRequested ==
  call.op = "bwd" =>
    /\ ~call.want.dX => (Untouched(dX) /\ hist.wdX = {})
    /\ ~call.want.dgamma => (Untouched(dgamma) /\ hist.wdgamma = {})
    /\ ~call.want.dbeta => (Untouched(dbeta) /\ hist.wdbeta = {})
    /\ pc = "done" =>
         /\ call.want.dX => Offsets(hist.wdX) = 0..(N * G * D * HxW - 1)
         /\ call.want.dgamma => Offsets(hist.wdgamma) = 0..(G * D - 1)
         /\ call.want.dbeta => Offsets(hist.wdbeta) = 0..(C - 1)
\* A call that requested only dbeta has returned: dbeta is written, dX and
\* dgamma hold the caller's sentinels.
C3_Witness ==
  /\ call.op = "bwd" /\ pc = "done"
  /\ call.want = [dX |-> FALSE, dgamma |-> FALSE, dbeta |-> TRUE]
  /\ \A i \in DOMAIN dbeta : dbeta[i] # prior.out
  /\ Untouched(dX) /\ Untouched(dgamma)
  /\ C > 1

\* C6: in GammaBackward and BetaBackward, whatever the partition of the range
\* into chunks and the interleaving of the workers, no dgamma (dbeta) offset
\* is written by two workers, the memset writes included.
C6_WorkerWritesDisjoint ==
  call.op = "bwd" =>
    /\ \A w1 \in hist.wdgamma, w2 \in hist.wdgamma : w1[1] = w2[1] => w1[2] = w2[2]
    /\ \A w1 \in hist.wdbeta, w2 \in hist.wdbeta : w1[1] = w2[1] => w1[2] = w2[2]
\* Two workers of GammaBackward are running at once over two groups, both
\* past their memset.
C6_Witness ==
  /\ call.op = "bwd" /\ pc = "dgamma" /\ G = 2
  /\ Cardinality(workers) = 2
  /\ Cardinality({w[2] : w \in hist.wdgamma}) = 2

\* The forward call took the interleaved layout's large-spatial path (impl-2)
\* or its small-spatial path (impl-1), and has returned.
Impl2Returned ==
  /\ call.op = "fwd" /\ pc = "done"
  /\ call.layout = "ChannelsLast" /\ HxW >= feature_map_threshold
Impl1Returned ==
  /\ call.op = "fwd" /\ pc = "done"
  /\ call.layout = "ChannelsLast" /\ HxW < feature_map_threshold
PackedReturned == call.op = "fwd" /\ pc = "done" /\ call.layout = "Contiguous"
\* The preconditions of the forward call hold.
ValidForward == C % G = 0 /\ ~CountMismatch

\* The buffers hold for unit i what u says: its mean, its rstd, and its Y
\* values at the offsets of u.y.
UnitStored(u, i) ==
  /\ At(mean, i) = u.mean
  /\ At(rstd, i) = u.rstd
  /\ \A off \in DOMAIN u.y : At(Y, off) = u.y[off]

\* C4: on the same interleaved input, the large-spatial path leaves in mean,
\* rstd and Y, for every unit (n, g) and every element of the unit, what the
\* small-spatial path computes for it, for every thread count and every
\* assignment of the N*HxW positions to threads.
C4_PathsAgree ==
  Impl2Returned =>
    \A n \in 0..(N - 1), g \in 0..(G - 1) : UnitStored(Impl1Unit(call, n, g), n * G + g)
\* The large-spatial path has returned from a run in which two threads each
\* accumulated some positions of a batch of two groups with gamma and beta.
C4_Witness ==
  /\ Impl2Returned /\ ValidForward
  /\ {a[1] : a \in hist.acc} = {0, 1}
  /\ G = 2 /\ D = 2 /\ call.gamma.defined /\ call.beta.defined
  /\ At(rstd, 0) # At(rstd, 1)

\* The call with X laid out as packed [N, C, HxW] holding the same logical
\* data as the interleaved X of call c.
AsPacked(c) ==
  [c EXCEPT !.layout = "Contiguous",
            !.X = Tensor([o \in 1..(c.N * c.C * c.HxW) |->
                            At(c.X.data, ToChannelsLast(o - 1, c.C, c.HxW))])]
\* The buffers of the interleaved call hold for unit i what the packed forward
\* computes: u.y is indexed by packed offsets.
PackedUnitStored(u, i) ==
  /\ At(mean, i) = u.mean
  /\ At(rstd, i) = u.rstd
  /\ \A off \in DOMAIN u.y : At(Y, ToChannelsLast(off, C, HxW)) = u.y[off]

C7_ScratchPrivate ==
  (call.op = "fwd" /\ hist.acc # {}) =>
    /\ Len(buffer) = num_threads * N * 2 * C
    /\ \A a \in hist.acc :
         /\ a[1] * N * 2 * C <= a[2] /\ a[2] < (a[1] + 1) * N * 2 * C
         /\ 0 <= a[2] /\ a[2] < Len(buffer)
    /\ \A a \in hist.acc, b \in hist.acc : a[2] = b[2] => a[1] = b[1]
\* Step-1 is over and two threads have each touched their region.
C7_Witness ==
  /\ call.op = "fwd" /\ pc = "combine"
  /\ {a[1] : a \in hist.acc} = {0, 1}
  /\ N = 2

\* C8: the large-spatial path runs its phases in order with a barrier between
\* them: no combine step before every position is accumulated, no
\* materialize step before every unit is combined, no apply step before
\* every unit is materialized; and while a later phase runs no earlier one
\* is still under way.
C8_PhasesInOrder ==
  call.op = "fwd" =>
    /\ hist.combDone # {} => hist.accDone = 0..(N * HxW - 1)
    /\ hist.matDone # {} => hist.combDone = 0..(N * G - 1)
    /\ hist.applyDone # {} => hist.matDone = 0..(N * G - 1)
    /\ pc = "combine" => (hist.matDone = {} /\ hist.applyDone = {})
    /\ pc = "materialize" => hist.applyDone = {}
    /\ pc = "accumulate" => (hist.combDone = {} /\ hist.matDone = {} /\ hist.applyDone = {})
\* The four phases have all run, the parallel ones in more than one chunk
\* by two threads.
C8_Witness ==
  /\ Impl2Returned
  /\ {a[1] : a \in hist.acc} = {0, 1}
  /\ hist.applyDone = 0..(N * HxW - 1)
  /\ N * G > 1

\* gamma and beta are both absent, or gamma is all ones and beta all zeros.
AffineAbsent(c) == ~c.gamma.defined /\ ~c.beta.defined
AffineIdentity(c) ==
  /\ c.gamma.defined /\ \A i \in DOMAIN c.gamma.data : c.gamma.data[i] = V1
  /\ c.beta.defined /\ \A i \in DOMAIN c.beta.data : c.beta.data[i] = V0
\* The call c with absent gamma and beta made explicit ones and zeros, and
\* with explicit ones and zeros made absent.
OtherIdentity(c) ==
  IF AffineAbsent(c)
  THEN [c EXCEPT !.gamma = Tensor(Fill(c.C, V1)), !.beta = Tensor(Fill(c.C, V0))]
  ELSE [c EXCEPT !.gamma = Undefined, !.beta = Undefined]
\* The buffers hold what the path that the call took computes on call c.
StoredAsOn(c) ==
  IF call.layout = "Contiguous"
  THEN \A i \in 0..(N * G - 1) : UnitStored(PackedUnit(c, i), i)
  ELSE IF HxW < feature_map_threshold
  THEN \A n \in 0..(N - 1), g \in 0..(G - 1) : UnitStored(Impl1Unit(c, n, g), n * G + g)
  ELSE \A n \in 0..(N - 1), g \in 0..(G - 1) : UnitStored(Impl2Unit(c, n, g), n * G + g)

\* C9: on every forward path, a call with gamma and beta absent leaves the Y,
\* mean and rstd that the path computes with gamma all ones and beta all
\* zeros, and a call with ones and zeros leaves what the path computes with
\* both absent (in the packed layout: y = (x - mean) * rstd equals
\* y = scale * x + bias with scale = rstd, bias = -scale * mean).
C9_AbsentIsIdentity ==
  (call.op = "fwd" /\ pc = "done" /\ (AffineAbsent(call) \/ AffineIdentity(call))) =>
    StoredAsOn(OtherIdentity(call))
\* A packed call without gamma and beta has returned, on a unit whose mean
\* is not zero and whose data is not constant.
C9_Witness ==
  /\ PackedReturned /\ AffineAbsent(call) /\ ValidForward
  /\ At(mean, 0) # V0
  /\ \E i \in DOMAIN Y, j \in DOMAIN Y : Y[i] # Y[j]

\* The number under the square root of an rstd value, and whether the value
\* is 1/sqrt of it.
Radicand(v) == v.rad
IsRsqrt(v) == v.k = Q1 /\ v.r = Q0
\* The positions of X that belong to unit i of the forward call.
UnitPositions(i) ==
  IF call.layout = "Contiguous" THEN (i * D * HxW)..((i + 1) * D * HxW - 1)
  ELSE {(i \div G) * HxW * C + m * C + (i % G) * D + d :
          m \in 0..(HxW - 1), d \in 0..(D - 1)}
ConstantUnit(i) ==
  \A o1 \in UnitPositions(i), o2 \in UnitPositions(i) : X_data(o1) = X_data(o2)
\* The variance that goes into the clamp in a state of the moment formulas.
RawVariance ==
  IF pc = "rstd_packed" THEN call.var.r
  ELSE QSub(QMul(call.sumsq.r, call.s.r),
            QMul(QMul(call.sum.r, call.s.r), QMul(call.sum.r, call.s.r)))
\* rstd is 1/sqrt(x) with x >= eps, x > 0 where required, and with x = eps
\* when the variance that went in was zero or below.
RstdClamped(v, e, positive) ==
  /\ IsRsqrt(v)
  /\ QLeq(e.r, Radicand(v))
  /\ positive => QLess(Q0, Radicand(v))
MomentsFloor(positive) ==
  (call.op = "moments" /\ pc # "start") =>
    /\ RstdClamped(rstd[1], call.eps, positive)
    /\ QLeq(RawVariance, Q0) => Radicand(rstd[1]) = call.eps.r
    /\ QLess(Q0, RawVariance) => Radicand(rstd[1]) = QAdd(RawVariance, call.eps.r)
ForwardFloor ==
  (call.op = "fwd") =>
    \A w \in hist.wRstd :
      /\ RstdClamped(At(rstd, w[1]), eps, TRUE)
      /\ ConstantUnit(w[1]) => Radicand(At(rstd, w[1])) = eps.r

\* C10 as stated: in every forward path the variance is clamped to at least
\* 0 before eps is added, so that the number under the square root is never
\* below eps and every rstd written is positive and finite; for a constant
\* group the clamped variance is 0 and rstd is 1/sqrt(eps).
C10_RstdPositiveFinite == ForwardFloor /\ MomentsFloor(TRUE)

\* C10 with eps > 0: in every forward path the variance is clamped to at
\* least 0 before eps is added and the number under the square root is
\* never below eps; when eps > 0 every rstd written is positive and finite,
\* and for a constant group rstd is 1/sqrt(eps).
C10_RstdFloorEpsPositive ==
  /\ ForwardFloor
  /\ MomentsFloor(call.op = "moments" /\ QLess(Q0, call.eps.r))
\* The formula of impl-2 has been applied to sums that give a variance below
\* zero, with eps = 1/2: the clamp acted and rstd is 1/sqrt(1/2).
C10_Witness ==
  /\ call.op = "moments" /\ pc = "rstd_impl2"
  /\ QLess(RawVariance, Q0) /\ call.eps = VQ(<<1, 2>>)
  /\ rstd[1] = VRsqrt(VQ(<<1, 2>>))

\* buf holds at every offset of w the value w has there.
HoldsAt(buf, w) == \A off \in DOMAIN w : At(buf, off) = w[off]
\* ds (prod = TRUE) and db (prod = FALSE) as ComputeInternalGradients leaves
\* them, computed from the arguments of the call alone.
GradientsOf(a, prod) ==
  Eager([i \in 1..(a.N * a.C) |-> GradientOf(a, i - 1, prod)])
\* dX, dgamma and dbeta hold what the three kernels compute when each is run
\* as a single work item on zero-filled memory.
BackwardAsSerial ==
  \E rds \in {GradientsOf(call, TRUE)}, rdb \in {GradientsOf(call, FALSE)} :
    /\ call.want.dX =>
         \A i \in 0..(N * G - 1) :
           HoldsAt(dX, InputBackwardUnit(call, rds, rdb, mean, rstd, i))
    /\ call.want.dgamma =>
         \E ref \in {GammaAccumulateFrom(call, Fill(C, V0), rds, rdb, mean, rstd,
                                          0, D, 0)} :
           \A c \in 0..(G * D - 1) : At(dgamma, c) = At(ref, c)
    /\ call.want.dbeta =>
         \E ref \in {BetaAccumulated(call, Fill(C, V0), rdb, 0, C)} :
           \A c \in 0..(C - 1) : At(dbeta, c) = At(ref, c)

\* C11: forward and backward are deterministic functions of their inputs
\* for a fixed thread count: whatever the interleaving of the work items
\* and whatever the memory held before the call, a returned forward call
\* leaves in Y, mean and rstd what its path computes from the arguments when
\* run by one thread, and a returned backward call leaves in dX, dgamma and
\* dbeta what the kernels compute as single work items on zeroed memory.
C11_Deterministic ==
  /\ (call.op = "fwd" /\ pc = "done") => StoredAsOn(call)
  /\ (call.op = "bwd" /\ pc = "done") => BackwardAsSerial
\* A backward call that requested all three gradients has returned, from
\* memory that held other values than in the default run, over two groups
\* and two batches.
C11_Witness ==
  /\ call.op = "bwd" /\ pc = "done"
  /\ call.want = [dX |-> TRUE, dgamma |-> TRUE, dbeta |-> TRUE]
  /\ prior = OtherPrior
  /\ N = 2 /\ G = 2 /\ D = 2

\* GammaBackward has run and returned.
GammaBackwardReturned ==
  call.op = "bwd" /\ call.want.dgamma /\ pc \in {"dbeta", "done"}
\* sum over the batches n of (ds[n, c] - db[n, c] * mean[n, g]) * rstd[n, g]
GammaSum(c, g) ==
  VSum([b \in 1..N |->
          VMul(VSub(At(ds, (b - 1) * C + c),
                    VMul(At(db, (b - 1) * C + c), At(mean, (b - 1) * G + g))),
               At(rstd, (b - 1) * G + g))])

\* C12: when dgamma is requested and C is a multiple of G, after
\* GammaBackward every channel c = g * D + j holds the sum over the batches
\* n of (ds[n, c] - db[n, c] * mean[n, g]) * rstd[n, g], for every chunking
\* of [0, D) among the workers and whatever dgamma held before the call.
C12_GammaIsSum ==
  (GammaBackwardReturned /\ C % G = 0) =>
    \A g \in 0..(G - 1), j \in 0..(D - 1) : At(dgamma, g * D + j) = GammaSum(g * D + j, g)
\* GammaBackward has returned after two workers each took a part of [0, D),
\* over two groups and two batches, on memory that held other values than
\* in the default run.
C12_Witness ==
  /\ GammaBackwardReturned /\ C % G = 0
  /\ N = 2 /\ G = 2 /\ D = 2
  /\ Cardinality({w[2] : w \in hist.wdgamma}) = 2
  /\ prior = OtherPrior
  /\ \E c \in 0..(C - 1) : At(dgamma, c) # V0

\* GroupNormInputBackward has run and returned.
InputBackwardReturned ==
  call.op = "bwd" /\ call.want.dX /\ pc \in {"dgamma", "dbeta", "done"}
\* The sum over the D channels c of unit (n, g) of which[n, c] * gamma[c],
\* gamma[c] = 1 when gamma is absent.
UnitSum(which, n, g) ==
  VSum([j \in 1..D |->
          VMul(At(which, n * C + g * D + j - 1),
               IF gamma_null THEN V1 ELSE gamma_data(g * D + j - 1))])
\* c1 * dY + c2 * X + c3 at offset off of channel c of unit i, from the
\* unit's reduced sums.
InputGradient(i, c, off, ds_g, db_g) ==
  LET s == VQ(<<1, D * HxW>>)
      r == At(rstd, i)
      m == At(mean, i)
      c1 == VMul(r, IF gamma_null THEN V1 ELSE gamma_data(c))
      c2 == VMul(VMul(VSub(VMul(db_g, m), ds_g), VMul(r, VMul(r, r))), s)
      c3 == VSub(VNeg(VMul(c2, m)), VMul(VMul(db_g, r), s))
  IN  VAdd(VAdd(VMul(c1, dY_data(off)), VMul(c2, X_data(off))), c3)
InputGradientStored(n, g) ==
  \E ds_g \in {UnitSum(ds, n, g)}, db_g \in {UnitSum(db, n, g)} :
    \A j \in 0..(D - 1), k \in 0..(HxW - 1) :
      At(dX, ((n * G + g) * D + j) * HxW + k) =
        InputGradient(n * G + g, g * D + j, ((n * G + g) * D + j) * HxW + k, ds_g, db_g)

\* C13: in GroupNormInputBackward, when C is a multiple of G, for every unit
\* i = n * G + g and every D, a multiple of the vector width or not, the
\* reduced ds and db of the unit (vector body plus scalar remainder) are the
\* sums over the D channels of the unit of ds[n, c] * gamma[c] and
\* db[n, c] * gamma[c], and every element of the unit gets
\* dX = c1 * dY + c2 * X + c3 with c1 = rstd * gamma[c],
\* c2 = (db_g * mean - ds_g) * rstd^3 * s, c3 = -c2 * mean - db_g * rstd * s,
\* s = 1 / (D * HxW).
C13_InputGradient ==
  (InputBackwardReturned /\ C % G = 0) =>
    \A n \in 0..(N - 1), g \in 0..(G - 1) :
      /\ ReduceUnit(call, ds, n * G + g) = UnitSum(ds, n, g)
      /\ ReduceUnit(call, db, n * G + g) = UnitSum(db, n, g)
      /\ InputGradientStored(n, g)
\* GroupNormInputBackward has returned on units of three channels (one
\* vector and a remainder of one) with gamma present, and the reduced ds of
\* the first unit is not zero.
C13_Witness ==
  /\ InputBackwardReturned /\ C % G = 0
  /\ D = 3 /\ HxW = 2 /\ ~gamma_null
  /\ UnitSum(ds, 0, 0) # V0
  /\ \E i \in DOMAIN dX, j \in DOMAIN dX : dX[i] # dX[j]

\* The (batch, channel) pairs whose iteration of ComputeInternalGradients
\* has run.
GradientsWritten ==
  IF call.op # "bwd" \/ pc \in {"start", "error"} THEN {}
  ELSE IF pc = "grads" THEN (0..(N * C - 1)) \ todo
  ELSE 0..(N * C - 1)
\* The sum over the HxW spatial positions of pair i of dY * X (prod = TRUE)
\* or of dY (prod = FALSE).
SpatialSum(i, prod) ==
  VSum([k \in 1..HxW |->
          IF prod THEN VMul(dY_data(i * HxW + k - 1), X_data(i * HxW + k - 1))
          ELSE dY_data(i * HxW + k - 1)])

\* C14: ComputeInternalGradients, in both its instantiations, writes for
\* every (batch, channel) pair i and every HxW (a multiple of the vector
\* width or not, or smaller than it) ds[i] = the sum over the HxW positions
\* of the pair of dY * X and db[i] = the sum over them of dY: each position
\* once, and no element of a neighbouring channel.
C14_InternalGradients ==
  \A i \in GradientsWritten :
    /\ At(ds, i) = SpatialSum(i, TRUE)
    /\ At(db, i) = SpatialSum(i, FALSE)
\* The BFloat16 instantiation has run over pairs of three positions (one
\* load of both halves and a remainder of one) whose sums differ.
C14_Witness ==
  /\ call.op = "bwd" /\ call.mixed /\ pc = "dx"
  /\ HxW = 3 /\ N * C > 1
  /\ At(ds, 0) # At(ds, 1) /\ At(db, 0) # V0

\* The sum over the HxW positions of batch n of x (sq = FALSE) or x * x
\* (sq = TRUE) in channel c of the interleaved X.
ChannelSum(n, c, sq) ==
  VSum([m \in 1..HxW |->
          IF sq THEN Sq(X_data((n * HxW + m - 1) * C + c))
          ELSE X_data((n * HxW + m - 1) * C + c)])
\* The partial sums of the threads for (n, c), mean half (plus = 0) or
\* variance half (plus = C) of the regions, add up to v.
PartialSumsAre(n, c, plus, v) ==
  VSum([t \in 1..num_threads |->
          At(buffer, (t - 1) * N * 2 * C + n * 2 * C + c + plus)]) = v
\* mean and rstd of unit (n, g) as the sums of x and x * x over the unit
\* give them.
UnitStatFromSums(n, g) ==
  Impl2MeanRstd(VSum([d \in 1..D |-> ChannelSum(n, g * D + d - 1, FALSE)]),
                VSum([d \in 1..D |-> ChannelSum(n, g * D + d - 1, TRUE)]),
                VQ(<<1, D * HxW>>), eps)

\* C15: in the large-spatial path, step-3 writes scale and bias only into
\* thread 0's region buffer[0 .. N*2*C); every read of a partial sum by
\* step-2 happens before any such write, while step-2 runs the scratch
\* holds the accumulated partial sums, and the mean and rstd of every unit,
\* as handed to step-3 and as stored, are those the sums of x and x * x
\* give, never computed from a scale or a bias.
C15_CombineBeforeOverwrite ==
  (call.op = "fwd" /\ pc \in {"combine", "materialize", "apply", "done"}
     /\ call.layout = "ChannelsLast" /\ HxW >= feature_map_threshold) =>
    /\ \A r \in hist.combRead : ~r[2]
    /\ \A o \in hist.matWrote : 0 <= o /\ o < N * 2 * C
    /\ pc = "combine" =>
         \A n \in 0..(N - 1), c \in 0..(C - 1) :
           /\ PartialSumsAre(n, c, 0, ChannelSum(n, c, FALSE))
           /\ PartialSumsAre(n, c, C, ChannelSum(n, c, TRUE))
    /\ \A i \in hist.combDone :
         /\ At(tmp_buffer, 2 * i) = UnitStatFromSums(i \div G, i % G).mean
         /\ At(tmp_buffer, 2 * i + 1) = UnitStatFromSums(i \div G, i % G).rstd
    /\ \A i \in hist.matDone :
         /\ At(mean, i) = UnitStatFromSums(i \div G, i % G).mean
         /\ At(rstd, i) = UnitStatFromSums(i \div G, i % G).rstd
\* Step-3 has overwritten thread 0's region after step-2 read the partial
\* sums of two threads for more than one unit, with gamma and beta present
\* so that the scale and bias written differ from the sums read.
C15_Witness ==
  /\ call.op = "fwd" /\ pc = "apply"
  /\ num_threads = 2 /\ N * G > 1
  /\ {a[1] : a \in hist.acc} = {0, 1}
  /\ hist.matWrote = 0..(N * 2 * G * D - 1)
  /\ {r[1] : r \in hist.combRead} = 0..(2 * N * 2 * C - 1)
  /\ ~gamma_null /\ ~beta_null /\ C % G = 0

\* No location of a write log <<offset, iteration>> has two writers.
OneWriter(log) == \A w1 \in log, w2 \in log : w1[1] = w2[1] => w1[2] = w2[2]
\* Every location of buf is in the write log and holds a value other than
\* what the caller left there.
AllWritten(buf, log) ==
  /\ Offsets(log) = 0..(Len(buf) - 1)
  /\ \A i \in DOMAIN buf : buf[i] # prior.out

\* C16: in every forward path, within a parallel phase every location of
\* Y, mean and rstd, and every scratch slot of the small-spatial path, is
\* written by one iteration only, hence by one work item, so that no two
\* work items running at once write the same location; and when a call
\* that satisfies the preconditions has returned every element of Y and
\* every mean[n, g] and rstd[n, g] has been written.
C16_WrittenOnceByOne ==
  call.op = "fwd" =>
    /\ OneWriter(hist.wY) /\ OneWriter(hist.wMean) /\ OneWriter(hist.wRstd)
    /\ OneWriter(hist.wScratch)
    /\ (pc = "done" /\ C % G = 0) =>
         /\ AllWritten(Y, hist.wY)
         /\ AllWritten(mean, hist.wMean)
         /\ AllWritten(rstd, hist.wRstd)
\* The small-spatial path has returned after more than one unit, each of
\* more than one channel, wrote its row of the scratch and its part of Y.
C16_Witness ==
  /\ Impl1Returned /\ C % G = 0
  /\ N * G > 1 /\ D > 1
  /\ Offsets(hist.wScratch) = 0..(N * G * 2 * D - 1)
  /\ Cardinality({w[2] : w \in hist.wY}) = N * G

=============================================================================
